---------------------------- MODULE Spec2Model ----------------------------
(***************************************************************************)
(* Model of the control/coordination core of robot_ai:                     *)
(*   src/src/action/motor_controller.py     MotorController                *)
(*   src/src/action/safety_monitor.py       SafetyMonitor                  *)
(*   src/src/action/led_controller.py       LEDController (pattern tasks)  *)
(*   src/src/action/hardware_integration.py HardwareIntegrationManager     *)
(*                                                                         *)
(* Scheduling is asyncio's: one coroutine runs at a time and control       *)
(* changes hands only at an await that really suspends (asyncio.sleep, the *)
(* 1 ms poll of _send_command).  Every action below is one such atomic     *)
(* stretch of code of one task.                                            *)
(***************************************************************************)
EXTENDS Integers, Sequences, FiniteSets, TLC

\* ------------------------------------------------------------------ bounds
MaxPending == 2     \* commands written and not yet answered by the device
MaxWrites  == 3     \* commands in the history of _send_command calls
MaxStops   == 2     \* emergency stops counted in one behaviour
MaxLed     == 1     \* LED pattern tasks alive at the same time
MaxLedStep == 1     \* expressions of a LED pattern that are followed
MaxCalls   == 2     \* public operations called in one behaviour
MaxTicks   == 2     \* ticks of the monitoring loop in one behaviour

\* ------------------------------------------------------- program constants
min_obstacle_distance   == 15
emergency_stop_distance == 10
base_speed              == 40
max_speed               == 100

NoDist == 0 - 1                       \* read_distance() returned None
Distances == {10, 15, 25}             \* readings: each threshold, and a safe one
SpeedArgs == {0, 300}                 \* speed argument; 0 stands for None
SetSpeedArgs == {300}                 \* argument of set_speed
EmotionMultipliers == {100}           \* speed_multiplier of the emotion, in percent

\* ---------------------------------------------------------------- enums
MoveDirections == {"MOVE_FORWARD", "MOVE_BACKWARD", "TURN_LEFT", "TURN_RIGHT"}
InputDirections == {"MOVE_FORWARD", "TURN_RIGHT"}     \* the moves that are called
MotorDirection == MoveDirections \cup {"STOP"}

SafetyLevel == {"SAFE", "WARNING", "DANGER", "EMERGENCY"}
SafetyAlert == {"OBSTACLE_TOO_CLOSE", "SENSOR_FAILURE", "COMMUNICATION_LOST",
                "MANUAL_EMERGENCY", "SYSTEM_ERROR"}

\* The order SAFE < WARNING < DANGER < EMERGENCY of the safety levels.
LevelRank(l) ==
    CASE l = "SAFE" -> 0
      [] l = "WARNING" -> 1
      [] l = "DANGER" -> 2
      [] l = "EMERGENCY" -> 3

\* ------------------------------------------------------------- variables
VARIABLES
    \* construction-time configuration
    serial_available,       \* motor_controller.SERIAL_AVAILABLE
    simulation_mode,        \* HardwareIntegrationManager.simulation_mode
    components_set,         \* SafetyMonitor.set_robot_components was called
    \* MotorController
    conn_open,              \* serial_connection is set and open
    direction, speed, is_moving,        \* MotorState
    is_emergency_stopped,   \* MotorController._is_emergency_stopped
    \* SafetyMonitor
    level, active_alerts, emergency_stops_count,   \* SafetyStatus
    stale,                  \* time.time() - last_sensor_reading > 2.0
    mon,                    \* the _monitoring_loop task
    \* LEDController pattern tasks started with asyncio.create_task
    led,
    \* the serial channel
    devq,                   \* commands written and not yet answered, in order
    running,                \* task that goes on without giving way
    \* the task that calls the public operations
    app,
    \* HardwareIntegrationManager
    stats,                  \* total_movements, total_expressions, safety_stops
    is_initialized, is_operational,
    init_success,               \* steps of the running initialize() that returned True
    sensor_manager,         \* a sensor manager was given to the constructor
    \* LEDController
    led_serial,             \* arduino_serial is set
    \* SafetyMonitor
    is_shutting_down,       \* _is_shutting_down
    is_monitoring_active,   \* SafetyStatus.is_monitoring_active
    faults,                 \* faults raised inside monitoring ticks so far
    handshake_ok,           \* a PING on the open connection was answered PONG
    \* history
    calls,                  \* public operations called so far
    ticks,                  \* monitoring ticks started so far
    logging,                \* the two below are kept
    wire,                   \* everything written to the device, in order
    submitted               \* commands handed to _send_command, in call order

configVars == <<serial_available, simulation_mode, components_set, conn_open>>
motorVars  == <<direction, speed, is_moving, is_emergency_stopped>>
safetyVars == <<level, active_alerts, emergency_stops_count, stale>>
chanVars   == <<devq, running, logging, wire, submitted>>
histVars   == <<calls, ticks>>
himVars    == <<stats>>
lifeVars   == <<is_initialized, is_operational, init_success, sensor_manager,
                led_serial, is_shutting_down, faults, handshake_ok,
                is_monitoring_active>>
vars == <<configVars, lifeVars, motorVars, safetyVars, chanVars, histVars, himVars,
          mon, led, app>>

\* ---------------------------------------------------------- wire protocol
Cmd(n, a) == [name |-> n, arg |-> a]
NL == Cmd("\n", 0 - 1)                \* the newline that ends a command line
Plain(n) == Cmd(n, 0 - 1)

Resp(k, c, d) == [kind |-> k, cmd |-> c, dist |-> d]
None    == Resp("NONE", "", NoDist)       \* no line read: _send_command gives None
Ok      == Resp("OK", "", NoDist)         \* the simulation's default reply
Garbled == Resp("GARBLED", "", NoDist)    \* a line that matches no expected token
Poll    == Resp("POLL", "", NoDist)       \* marker: the reply has to be polled for
Action(c)  == Resp("ACTION", c, NoDist)   \* a line containing ACTION:<c>
Sensors(d) == Resp("SENSORS", "", d)      \* SENSORS:{"distance": d, ...}
Pong    == Resp("PONG", "", NoDist)
Status  == Resp("STATUS", "", NoDist)     \* STATUS:{...}
StatusError == Resp("STATUS", "error", NoDist)   \* STATUS:{...} with an error value

\* The acknowledgement the device sends for a command (protocol of the firmware,
\* as the simulation branch and the callers' checks give it).
AckOf(c) ==
    CASE c.name \in MotorDirection -> {Action(c.name)}
      [] c.name = "SET_SPEED"      -> {Action("SPEED_SET")}
      [] c.name = "LED_PATTERN"    -> {Action("LED_PATTERN")}
      [] c.name = "PING"           -> {Pong}
      [] c.name = "STATUS"         -> {Status, StatusError}
      [] c.name = "READ_SENSORS"   -> {Sensors(d) : d \in Distances \cup {NoDist}}
      [] OTHER                     -> {Garbled}

\* A check that takes any ACTION line for the acknowledgement.
HasAction_any(r, c) == r.kind = "ACTION"

\* `token in response` of the callers.
HasAction(r, c) == r.kind = "ACTION" /\ r.cmd = c


\* `"<sub>" in command` for the command names of the protocol.
NameContains(n, sub) ==
    CASE sub = "PING"      -> n = "PING"
      [] sub = "MOVE"      -> n \in {"MOVE_FORWARD", "MOVE_BACKWARD"}
      [] sub = "TURN"      -> n \in {"TURN_LEFT", "TURN_RIGHT"}
      [] sub = "STOP"      -> n = "STOP"
      [] sub = "SET_SPEED" -> n = "SET_SPEED"
      [] sub = "STATUS"    -> n = "STATUS"
      [] OTHER             -> FALSE

\* _send_command without the serial library: the canned reply.
SimResponse(c) ==
    IF NameContains(c.name, "PING") THEN Pong
    ELSE IF NameContains(c.name, "MOVE") \/ NameContains(c.name, "TURN")
         THEN Action(c.name)
    ELSE IF NameContains(c.name, "STOP") THEN Action("STOP")
    ELSE IF NameContains(c.name, "SET_SPEED") THEN Action("SPEED_SET")
    ELSE IF NameContains(c.name, "STATUS") THEN Status
    ELSE Ok

\* ------------------------------------------------------------ the tasks
Task(kind, i) == <<kind, i>>
Nobody  == Task("none", 0)
MonTask == Task("mon", 0)            \* SafetyMonitor._monitoring_loop
AppTask == Task("app", 0)            \* the caller of the public operations
LedTask(i) == Task("led", i)         \* a LED pattern task

\* ------------------------------------------------------------ the channel
ChanOpen == serial_available /\ conn_open

\* f"{command}\n" for each command, in order.
Encode(cmds) ==
    [i \in 1..(2 * Len(cmds)) |-> IF i % 2 = 1 THEN cmds[(i + 1) \div 2] ELSE NL]

\* A write that sends the commands without their line ends.
SerialWrite_unterminated(w, cmds) == w \o cmds

\* serial_connection.write(command_bytes); flush(): one call, no await inside.
SerialWrite(w, cmds) == w \o Encode(cmds)

\* The reply _send_command returns without suspending: the simulation's canned
\* reply, None when the connection is not open, otherwise it has to poll.
ImmediateReply(c) ==
    IF ~serial_available THEN SimResponse(c)
    ELSE IF ~conn_open THEN None
    ELSE Poll

\* Room for n more commands: in the device's queue, and in the history when
\* one is kept.
CanSubmit(n) ==
    /\ ChanOpen => Len(devq) + n <= MaxPending
    /\ logging => Len(submitted) + n <= MaxWrites

\* Task t calls _send_command for each of cmds in turn; only the last call
\* expects a response.  q is the device's queue as the step has left it so far.
\* Without an open connection the call returns at once and t goes on without
\* giving way to another task.
Send(t, cmds, q) ==
    /\ CanSubmit(Len(cmds))
    /\ submitted' = IF logging THEN submitted \o cmds ELSE submitted
    /\ wire' = IF logging /\ ChanOpen THEN SerialWrite(wire, cmds) ELSE wire
    /\ devq' = IF ChanOpen THEN q \o cmds ELSE q
    /\ running' = IF ChanOpen THEN Nobody ELSE t
    /\ logging' = logging

\* A step that makes no _send_command call.
NoSend(q) ==
    /\ submitted' = submitted
    /\ wire' = wire
    /\ devq' = q
    /\ running' = Nobody
    /\ logging' = logging

\* The device consumes the written lines in order and answers each with its
\* acknowledgement or with a line the caller does not recognise.  The poll loop
\* of _send_command ends with the next line that arrives, whichever command it
\* answers, or with None once the timeout has passed without one.
DeviceResponses(c) == AckOf(c) \cup {Garbled}

\* A poll loop that has no timeout: it ends only with a line.
Replies_blocking(t, imm) ==
    IF imm # Poll
    THEN {[r |-> imm, q |-> devq, timed_out |-> FALSE]}
    ELSE IF devq = <<>> THEN {}
         ELSE {[r |-> x, q |-> Tail(devq), timed_out |-> FALSE] :
                  x \in DeviceResponses(Head(devq))}

Replies(t, imm) ==
    IF imm # Poll
    THEN {[r |-> imm, q |-> devq, timed_out |-> FALSE]}
    ELSE {[r |-> None, q |-> devq, timed_out |-> TRUE]}
         \cup (IF devq = <<>> THEN {}
               ELSE {[r |-> x, q |-> Tail(devq), timed_out |-> FALSE] :
                        x \in DeviceResponses(Head(devq))})

MayRun(t) == running \in {Nobody, t}

\* The device leaves a command without an answer.
DeviceSilent ==
    /\ running = Nobody
    /\ devq # <<>>
    /\ devq' = Tail(devq)
    /\ UNCHANGED <<wire, running, submitted, logging>>
    /\ UNCHANGED <<configVars, lifeVars, himVars, histVars, motorVars, safetyVars, mon, led, app>>

\* flushInput(): the answers that have arrived so far are discarded.
Flushed == {SubSeq(devq, k + 1, Len(devq)) : k \in 0..Len(devq)}

\* --------------------------------------------------- LED pattern tasks
LedIds == 1..MaxLed
LedFree == [pc |-> "free", kind |-> "", idx |-> 0, imm |-> Poll]

\* asyncio.create_task(led_controller.<kind>()): the task starts at its entry
\* the next time the loop schedules it.  Past MaxLed live tasks the new one is
\* not tracked by the model.
SpawnLed(l, kind) ==
    IF \E i \in LedIds : l[i].pc = "free"
    THEN LET i == CHOOSE j \in LedIds : l[j].pc = "free" /\ \A k \in LedIds : l[k].pc = "free" => j <= k
         IN [l EXCEPT ![i] = [pc |-> "entry", kind |-> kind, idx |-> 1, imm |-> Poll]]
    ELSE l

\* _stop_animation(): the timed expression kept in animation_task is cancelled
\* and awaited; the pattern tasks, which no field keeps, go on.  `self` is the
\* LED task that calls it, 0 for another task.
StopAnimation(l, self) ==
    [i \in LedIds |-> IF l[i].kind = "timed" /\ i # self THEN LedFree ELSE l[i]]

\* ------------------------------------------------------------- Init
NoTask(pc) == [pc |-> pc, cont |-> "", imm |-> Poll, distance |-> NoDist]

InitHardware ==
    /\ serial_available = TRUE
    /\ simulation_mode = FALSE
    /\ components_set = TRUE
    /\ conn_open = TRUE
    /\ sensor_manager = TRUE
    /\ led_serial = TRUE
    /\ handshake_ok = TRUE
    /\ init_success = {"motor", "led", "sensor", "safety", "test"}
    /\ mon = NoTask("sleep")
    /\ is_monitoring_active = TRUE

InitSimulation ==
    /\ serial_available \in BOOLEAN
    /\ simulation_mode = TRUE
    /\ components_set = FALSE
    /\ conn_open = FALSE
    /\ sensor_manager = FALSE
    /\ led_serial = FALSE
    /\ handshake_ok = FALSE
    /\ init_success = {}
    /\ mon = NoTask("off")
    /\ is_monitoring_active = FALSE

\* The objects as their constructors leave them.
InitObjects ==
    /\ direction = "STOP"
    /\ speed = 0
    /\ is_moving = FALSE
    /\ is_emergency_stopped = FALSE
    /\ level = "SAFE"
    /\ active_alerts = {}
    /\ emergency_stops_count = 0
    /\ stale = TRUE
    /\ led = [i \in LedIds |-> LedFree]
    /\ devq = <<>>
    /\ running = Nobody
    /\ calls = 0
    /\ ticks = 0
    /\ stats = [total_movements |-> 0, total_expressions |-> 0, safety_stops |-> 0]
    /\ wire = <<>>
    /\ submitted = <<>>
    /\ app = [pc |-> "idle", op |-> "stop", dir |-> "STOP", spd |-> 0,
              ret |-> "True", imm |-> Poll, distance |-> NoDist,
              response |-> None]

\* The state once HardwareIntegrationManager.initialize() has wired the
\* components and started the monitoring loop (hardware mode), or has returned
\* at once (simulation_mode).
InitState ==
    /\ InitHardware \/ InitSimulation
    /\ is_initialized = TRUE
    /\ is_operational = TRUE
    /\ is_shutting_down = FALSE
    /\ faults = 0
    /\ InitObjects

Init == InitState /\ logging = FALSE

\* The same, keeping the history of the channel.
InitLog == InitState /\ logging = TRUE

\* ------------------------------------------------ the calling task (app)
AppReturn(ret) == [app EXCEPT !.pc = "idle", !.ret = ret, !.imm = Poll]
AppWait(pc, c) == [app EXCEPT !.pc = pc, !.imm = ImmediateReply(c)]
Bool(b) == IF b THEN "True" ELSE "False"

MotorOps  == {"stop", "emergency_stop", "resume_from_emergency"}
SafetyOps == {"manual_emergency_stop", "resume_after_emergency"}
HimOps    == {"him_emergency_stop"}

\* int(base_speed * speed_multiplier) clamped to [10, max_speed].
Max2(a, b) == IF a > b THEN a ELSE b
Min2(a, b) == IF a < b THEN a ELSE b
EmotionalSpeed(pct) == Max2(10, Min2((base_speed * pct) \div 100, max_speed))

\* The task decides to call a public operation.
Invoke ==
    /\ app.pc = "idle"
    /\ running = Nobody
    /\ calls < MaxCalls
    /\ calls' = calls + 1
    /\ \E c \in  [op : {"move"}, dir : InputDirections, spd : SpeedArgs]
            \cup [op : {"move_with_emotion"}, dir : InputDirections \cup {"STOP"},
                  spd : {EmotionalSpeed(m) : m \in EmotionMultipliers}]
            \cup [op : {"him_move_with_emotion"}, dir : InputDirections \cup {"STOP"},
                  spd : {EmotionalSpeed(m) : m \in EmotionMultipliers}]
            \cup [op : {"set_speed"}, dir : {"STOP"}, spd : SetSpeedArgs]
            \cup [op : MotorOps \cup SafetyOps \cup HimOps, dir : {"STOP"}, spd : {0}] :
          app' = [pc |-> "entry", op |-> c.op, dir |-> c.dir, spd |-> c.spd,
                  ret |-> "pending", imm |-> Poll, distance |-> NoDist,
                  response |-> None]
    /\ UNCHANGED <<configVars, lifeVars, himVars, ticks, motorVars, safetyVars, chanVars, mon, led>>

\* ---------------------------------------------------- MotorController
\* A move method returns: to its caller's caller, or into
\* HardwareIntegrationManager.move_with_emotion, which holds the movement on
\* success and otherwise awaits its LED task.
AfterMove(success) ==
    IF app.op = "him_move_with_emotion"
    THEN IF success
         THEN [app EXCEPT !.pc = "hold", !.imm = Poll]
         ELSE [app EXCEPT !.pc = "await_led", !.ret = "False", !.imm = Poll]
    ELSE AppReturn(Bool(success))

\* A move that does not look at the latch.
MoveBlocked_unchecked == FALSE

\* `if self._is_emergency_stopped: return False` of the four move methods.
MoveBlocked == is_emergency_stopped

\* speed or self.motor_state.speed or self.base_speed
EffectiveSpeed(s) == IF s # 0 THEN s ELSE IF speed # 0 THEN speed ELSE base_speed

\* SET_SPEED when the speed differs (no response awaited), then the motion
\* command (response awaited).
MoveCommands(eff, dir) ==
    (IF eff # speed THEN <<Cmd("SET_SPEED", eff)>> ELSE <<>>) \o <<Plain(dir)>>

\* move_forward / move_backward / turn_left / turn_right up to the await of the
\* motion command's response.
MoveBody(dir, spd, q) ==
    IF MoveBlocked
    THEN /\ app' = AfterMove(FALSE)
         /\ NoSend(q)
         /\ UNCHANGED motorVars
    ELSE LET eff == EffectiveSpeed(spd) IN
         /\ Send(AppTask, MoveCommands(eff, dir), q)
         /\ speed' = eff
         /\ app' = AppWait("move_wait", Plain(dir))
         /\ UNCHANGED <<direction, is_moving, is_emergency_stopped>>

\* A stop that is refused while the latch is set.
StopBody_latched(q) ==
    IF is_emergency_stopped
    THEN /\ app' = AppReturn("False")
         /\ NoSend(q)
    ELSE /\ Send(AppTask, <<Plain("STOP")>>, q)
         /\ app' = AppWait("stop_wait", Plain("STOP"))

\* stop() up to the await of the STOP response.
StopBody(q) ==
    /\ Send(AppTask, <<Plain("STOP")>>, q)
    /\ app' = AppWait("stop_wait", Plain("STOP"))

move ==
    /\ app.pc = "entry" /\ app.op = "move"
    /\ MayRun(AppTask)
    /\ MoveBody(app.dir, app.spd, devq)
    /\ UNCHANGED <<configVars, lifeVars, himVars, histVars, safetyVars, mon, led>>

\* The rest of a move method once _send_command has returned r.
move_done ==
    /\ app.pc = "move_wait"
    /\ MayRun(AppTask)
    /\ \E rep \in Replies(AppTask, app.imm) :
          LET success == HasAction(rep.r, app.dir) IN
          /\ direction' = IF success THEN app.dir ELSE direction
          /\ is_moving' = IF success THEN TRUE ELSE is_moving
          /\ app' = [AfterMove(success) EXCEPT !.response = rep.r]
          /\ NoSend(rep.q)
    /\ UNCHANGED <<speed, is_emergency_stopped>>
    /\ UNCHANGED <<configVars, lifeVars, himVars, histVars, safetyVars, mon, led>>

stop ==
    /\ app.pc = "entry" /\ app.op = "stop"
    /\ MayRun(AppTask)
    /\ StopBody(devq)
    /\ UNCHANGED <<configVars, lifeVars, himVars, histVars, motorVars, safetyVars, mon, led>>

\* max(0, min(speed, self.max_speed))
ClampedSpeed(s) == Max2(0, Min2(s, max_speed))

\* set_speed(speed) up to the await of the SET_SPEED response.
set_speed ==
    /\ app.pc = "entry" /\ app.op = "set_speed"
    /\ MayRun(AppTask)
    /\ LET c == Cmd("SET_SPEED", ClampedSpeed(app.spd)) IN
       /\ Send(AppTask, <<c>>, devq)
       /\ app' = AppWait("speed_wait", c)
    /\ UNCHANGED <<configVars, lifeVars, himVars, histVars, motorVars, safetyVars, mon, led>>

\* The rest of set_speed once _send_command has returned.
set_speed_done ==
    /\ app.pc = "speed_wait"
    /\ MayRun(AppTask)
    /\ \E rep \in Replies(AppTask, app.imm) :
          LET success == HasAction(rep.r, "SPEED_SET") IN
          /\ speed' = IF success THEN ClampedSpeed(app.spd) ELSE speed
          /\ app' = [AppReturn(Bool(success)) EXCEPT !.response = rep.r]
          /\ NoSend(rep.q)
    /\ UNCHANGED <<direction, is_moving, is_emergency_stopped>>
    /\ UNCHANGED <<configVars, lifeVars, himVars, histVars, safetyVars, mon, led>>

\* An emergency stop that only stops.
emergency_stop_unlatched ==
    /\ app.pc = "entry" /\ app.op = "emergency_stop"
    /\ MayRun(AppTask)
    /\ StopBody(devq)
    /\ UNCHANGED motorVars
    /\ UNCHANGED <<configVars, lifeVars, himVars, histVars, safetyVars, mon, led>>

\* self._is_emergency_stopped = True, then stop().
emergency_stop ==
    /\ app.pc = "entry" /\ app.op = "emergency_stop"
    /\ MayRun(AppTask)
    /\ is_emergency_stopped' = TRUE
    /\ StopBody(devq)
    /\ UNCHANGED <<direction, speed, is_moving>>
    /\ UNCHANGED <<configVars, lifeVars, himVars, histVars, safetyVars, mon, led>>

resume_from_emergency ==
    /\ app.pc = "entry" /\ app.op = "resume_from_emergency"
    /\ MayRun(AppTask)
    /\ is_emergency_stopped' = FALSE
    /\ app' = AppReturn("True")
    /\ NoSend(devq)
    /\ UNCHANGED <<direction, speed, is_moving>>
    /\ UNCHANGED <<configVars, lifeVars, himVars, histVars, safetyVars, mon, led>>

\* MotorController.move_with_emotion: with a serial connection object it
\* flushes the buffers and sleeps 0.1 s before it dispatches.
move_with_emotion ==
    /\ app.pc = "entry" /\ app.op = "move_with_emotion"
    /\ MayRun(AppTask)
    /\ IF conn_open
       THEN /\ app' = [app EXCEPT !.pc = "mwe_sleep"]
            /\ \E q \in Flushed : NoSend(q)
            /\ UNCHANGED motorVars
       ELSE IF app.dir = "STOP"
       THEN StopBody(devq) /\ UNCHANGED motorVars
       ELSE MoveBody(app.dir, app.spd, devq)
    /\ UNCHANGED <<configVars, lifeVars, himVars, histVars, safetyVars, mon, led>>

move_with_emotion_dispatch ==
    /\ app.pc = "mwe_sleep"
    /\ MayRun(AppTask)
    /\ IF app.dir = "STOP"
       THEN StopBody(devq) /\ UNCHANGED motorVars
       ELSE MoveBody(app.dir, app.spd, devq)
    /\ UNCHANGED <<configVars, lifeVars, himVars, histVars, safetyVars, mon, led>>

\* ------------------------------------------ HardwareIntegrationManager
\* A manager that moves whatever the safety level.
is_safe_to_move_always == TRUE

\* SafetyMonitor.is_safe_to_move(); HardwareIntegrationManager.is_safe() is
\* the same once initialize() has made the manager operational.
is_safe_to_move == level \in {"SAFE", "WARNING"}
is_safe == is_safe_to_move

\* HardwareIntegrationManager.move_with_emotion up to its first suspension:
\* the safety check, the LED task for the emotion (its controller has a serial
\* link only in hardware mode), then MotorController.move_with_emotion or, for
\* the direction stop, MotorController.stop.
him_move_with_emotion ==
    /\ app.pc = "entry" /\ app.op = "him_move_with_emotion"
    /\ MayRun(AppTask)
    /\ IF ~is_operational \/ ~is_safe_to_move
       THEN /\ app' = AppReturn("False")
            /\ NoSend(devq)
            /\ UNCHANGED <<motorVars, led>>
       ELSE /\ led' = IF components_set THEN SpawnLed(led, "emotion") ELSE led
            /\ IF app.dir = "STOP"
               THEN StopBody(devq) /\ UNCHANGED motorVars
               ELSE IF conn_open
               THEN /\ app' = [app EXCEPT !.pc = "mwe_sleep"]
                    /\ \E q \in Flushed : NoSend(q)
                    /\ UNCHANGED motorVars
               ELSE MoveBody(app.dir, app.spd, devq)
    /\ UNCHANGED <<configVars, lifeVars, himVars, histVars, safetyVars, mon>>

\* `await asyncio.sleep(duration)` ends: the movement is stopped.
hold_done ==
    /\ app.pc = "hold"
    /\ running = Nobody
    /\ StopBody(devq)
    /\ UNCHANGED <<configVars, lifeVars, himVars, histVars, motorVars, safetyVars, mon, led>>

\* `await led_task`: the LED task of the emotion has finished.
await_led_done ==
    /\ app.pc = "await_led"
    /\ running = Nobody
    /\ \A i \in LedIds : led[i].kind # "emotion"
    /\ app' = AppReturn(app.ret)
    /\ UNCHANGED <<configVars, lifeVars, himVars, histVars, motorVars, safetyVars, chanVars, mon, led>>

\* ------------------------------------------------------- SafetyMonitor
\* read_distance(): the distance of a SENSORS reply, None for anything else.
DistanceOf(r) == IF r.kind = "SENSORS" THEN r.dist ELSE NoDist

\* _check_communication on a status (lv, al) when the last reading is stale.
CommunicationLost(al, st) == st /\ "COMMUNICATION_LOST" \notin al
CommAlerts(al, st) ==
    IF CommunicationLost(al, st) THEN al \cup {"COMMUNICATION_LOST"} ELSE al
CommLevel(lv, al, st) == IF CommunicationLost(al, st) THEN "DANGER" ELSE lv

\* trigger_emergency_stop(alert) up to the await of the STOP response: the
\* alert, the level, the counters, and MotorController.emergency_stop() when a
\* motor controller is attached.
trigger_emergency_stop(t, alert, q) ==
    /\ emergency_stops_count < MaxStops
    /\ active_alerts' = active_alerts \cup {alert}
    /\ level' = "EMERGENCY"
    /\ emergency_stops_count' = emergency_stops_count + 1
    /\ IF components_set
       THEN /\ is_emergency_stopped' = TRUE
            /\ Send(t, <<Plain("STOP")>>, q)
       ELSE /\ is_emergency_stopped' = is_emergency_stopped
            /\ NoSend(q)
    /\ UNCHANGED <<direction, speed, is_moving>>

\* The monitoring loop falls asleep after _check_communication.
EndTick(d, lv, al, st, l, q) ==
    /\ level' = CommLevel(lv, al, st)
    /\ active_alerts' = CommAlerts(al, st)
    /\ stale' = st
    /\ led' = l
    /\ mon' = [NoTask("sleep") EXCEPT !.distance = d]
    /\ NoSend(q)

\* A warning handler that leaves the level as it is.
WarningLevel_kept(lv) == lv

\* _handle_warning_obstacle
WarningLevel(lv) == IF lv = "SAFE" THEN "WARNING" ELSE lv

\* _clear_obstacle_alerts
ClearedAlerts(al) == al \ {"OBSTACLE_TOO_CLOSE"}
ClearedLevel(lv) == IF lv \in {"WARNING", "DANGER"} THEN "SAFE" ELSE lv

\* A tick starts: _check_sensors awaits sensor_manager.read_distance().  At
\* most `bound` ticks are started; d is what the task's record keeps as the
\* reading while the new one is awaited.
StartTick(bound, d) ==
    /\ mon.pc = "sleep"
    /\ ~is_shutting_down
    /\ running = Nobody
    /\ ticks < bound
    /\ ticks' = ticks + 1
    /\ Send(MonTask, <<Plain("READ_SENSORS")>>, devq)
    /\ mon' = [pc |-> "read_wait", cont |-> "", distance |-> d,
                imm |-> ImmediateReply(Plain("READ_SENSORS"))]
    /\ UNCHANGED <<configVars, lifeVars, himVars, calls, motorVars, safetyVars, led, app>>

check_sensors == StartTick(MaxTicks, NoDist)

\* _check_sensors from the reading on, and _check_communication unless the
\* tick suspends in an emergency stop.
sensors_read ==
    /\ mon.pc = "read_wait"
    /\ MayRun(MonTask)
    /\ \E rep \in Replies(MonTask, mon.imm) :
        LET d  == DistanceOf(rep.r)
            st == IF d # NoDist THEN FALSE ELSE (stale \/ rep.timed_out)
            stopWait(c) == [pc |-> "stop_wait", cont |-> c, distance |-> d,
                            imm |-> ImmediateReply(Plain("STOP"))]
        IN
        IF d # NoDist /\ d <= emergency_stop_distance
        THEN \* _handle_emergency_obstacle
             IF "OBSTACLE_TOO_CLOSE" \notin active_alerts
             THEN /\ trigger_emergency_stop(MonTask, "OBSTACLE_TOO_CLOSE", rep.q)
                  /\ stale' = st
                  /\ mon' = stopWait("obstacle")
                  /\ led' = led
             ELSE /\ EndTick(d, level, active_alerts, st, led, rep.q)
                  /\ UNCHANGED <<emergency_stops_count, motorVars>>
        ELSE IF d # NoDist /\ d <= min_obstacle_distance
        THEN \* _handle_warning_obstacle
             /\ EndTick(d, WarningLevel(level), active_alerts, st,
                        IF level = "SAFE" THEN SpawnLed(led, "attention") ELSE led,
                        rep.q)
             /\ UNCHANGED <<emergency_stops_count, motorVars>>
        ELSE IF d # NoDist
        THEN \* _clear_obstacle_alerts
             /\ EndTick(d, ClearedLevel(level), ClearedAlerts(active_alerts), st, led, rep.q)
             /\ UNCHANGED <<emergency_stops_count, motorVars>>
        ELSE \* _handle_sensor_failure
             IF "SENSOR_FAILURE" \notin active_alerts
             THEN IF ~is_emergency_stopped
                  THEN /\ active_alerts' = active_alerts \cup {"SENSOR_FAILURE"}
                       /\ level' = "DANGER"
                       /\ is_emergency_stopped' = TRUE
                       /\ Send(MonTask, <<Plain("STOP")>>, rep.q)
                       /\ stale' = st
                       /\ mon' = stopWait("sensor_failure")
                       /\ led' = led
                       /\ UNCHANGED <<emergency_stops_count, direction, speed, is_moving>>
                  ELSE /\ EndTick(d, "DANGER", active_alerts \cup {"SENSOR_FAILURE"}, st, led, rep.q)
                       /\ UNCHANGED <<emergency_stops_count, motorVars>>
             ELSE /\ EndTick(d, level, active_alerts, st, led, rep.q)
                  /\ UNCHANGED <<emergency_stops_count, motorVars>>
    /\ UNCHANGED <<configVars, lifeVars, himVars, histVars, app>>

\* The STOP of the monitor's emergency stop has been answered or has timed
\* out: the rest of trigger_emergency_stop and _handle_emergency_obstacle (two
\* emergency_pattern tasks), or of _handle_sensor_failure, then
\* _check_communication.
monitor_stop_done ==
    /\ mon.pc = "stop_wait"
    /\ MayRun(MonTask)
    /\ \E rep \in Replies(MonTask, mon.imm) :
        LET success == HasAction(rep.r, "STOP")
            st == stale \/ rep.timed_out
        IN
        /\ direction' = IF success THEN "STOP" ELSE direction
        /\ is_moving' = IF success THEN FALSE ELSE is_moving
        /\ IF mon.cont = "fatal"
           THEN \* the handler of _monitoring_loop: the task ends
                /\ led' = SpawnLed(led, "emergency")
                /\ mon' = NoTask("off")
                /\ NoSend(rep.q)
                /\ UNCHANGED <<level, active_alerts, stale>>
           ELSE EndTick(mon.distance, level, active_alerts, st,
                        IF mon.cont = "obstacle"
                        THEN SpawnLed(SpawnLed(led, "emergency"), "emergency")
                        ELSE led,
                        rep.q)
    /\ UNCHANGED <<speed, is_emergency_stopped, emergency_stops_count>>
    /\ UNCHANGED <<configVars, lifeVars, himVars, histVars, app>>

\* HardwareIntegrationManager.move_with_emotion after the hold and the stop:
\* stats['total_movements'] += 1; stats['total_expressions'] += 1.
MovementCounted(st) ==
    [st EXCEPT !.total_movements = @ + 1, !.total_expressions = @ + 1]

\* HardwareIntegrationManager.emergency_stop(): stats['safety_stops'] += 1
\* once manual_emergency_stop() has returned True.
SafetyStopCounted(st) == [st EXCEPT !.safety_stops = @ + 1]

\* manual_emergency_stop(), also reached through
\* HardwareIntegrationManager.emergency_stop().
manual_emergency_stop ==
    /\ app.pc = "entry" /\ app.op \in {"manual_emergency_stop", "him_emergency_stop"}
    /\ MayRun(AppTask)
    /\ trigger_emergency_stop(AppTask, "MANUAL_EMERGENCY", devq)
    /\ app' = IF components_set THEN AppWait("stop_wait", Plain("STOP"))
              ELSE AppReturn("True")
    /\ stats' = IF ~components_set /\ app.op = "him_emergency_stop"
                THEN SafetyStopCounted(stats) ELSE stats
    /\ UNCHANGED <<configVars, lifeVars, histVars, stale, mon, led>>

\* The rest of stop() once _send_command has returned, and of its callers:
\* emergency_stop() returns stop()'s result; trigger_emergency_stop starts the
\* LED emergency pattern and returns True.
stop_done ==
    /\ app.pc = "stop_wait"
    /\ MayRun(AppTask)
    /\ \E rep \in Replies(AppTask, app.imm) :
        LET success == HasAction(rep.r, "STOP")
            triggered == app.op \in {"manual_emergency_stop", "him_emergency_stop"}
            held == app.op = "him_move_with_emotion" /\ app.dir # "STOP"
        IN
        /\ direction' = IF success THEN "STOP" ELSE direction
        /\ is_moving' = IF success THEN FALSE ELSE is_moving
        /\ app' = [(IF triggered \/ held THEN AppReturn("True")
                    ELSE IF app.op = "him_move_with_emotion"
                    THEN [app EXCEPT !.pc = "await_led", !.ret = Bool(success),
                                     !.imm = Poll]
                    ELSE AppReturn(Bool(success)))
                   EXCEPT !.response = rep.r]
        /\ led' = IF triggered THEN SpawnLed(led, "emergency") ELSE led
        /\ stats' = IF app.op = "him_emergency_stop" THEN SafetyStopCounted(stats)
                    ELSE IF held THEN MovementCounted(stats)
                    ELSE stats
        /\ NoSend(rep.q)
    /\ UNCHANGED <<speed, is_emergency_stopped>>
    /\ UNCHANGED <<configVars, lifeVars, histVars, safetyVars, mon>>

\* A resume that refuses only below the emergency distance.
ResumeRefused_strict(d) == d = NoDist \/ d < emergency_stop_distance

\* `distance is None or distance <= self.min_obstacle_distance`
ResumeRefused(d) == d = NoDist \/ d <= min_obstacle_distance

\* resume_after_emergency up to the await of read_distance(); without a sensor
\* manager it clears at once.
resume_after_emergency ==
    /\ app.pc = "entry" /\ app.op = "resume_after_emergency"
    /\ MayRun(AppTask)
    /\ IF components_set
       THEN /\ Send(AppTask, <<Plain("READ_SENSORS")>>, devq)
            /\ app' = AppWait("resume_read", Plain("READ_SENSORS"))
            /\ UNCHANGED <<level, active_alerts>>
       ELSE /\ active_alerts' = {}
            /\ level' = "SAFE"
            /\ app' = AppReturn("True")
            /\ NoSend(devq)
    /\ UNCHANGED <<configVars, lifeVars, himVars, histVars, motorVars, emergency_stops_count, stale, mon, led>>

\* resume_after_emergency from the reading on.
resume_read ==
    /\ app.pc = "resume_read"
    /\ MayRun(AppTask)
    /\ \E rep \in Replies(AppTask, app.imm) :
        LET d == DistanceOf(rep.r) IN
        /\ NoSend(rep.q)
        /\ IF ResumeRefused(d)
           THEN /\ app' = [AppReturn("False") EXCEPT !.distance = d]
                /\ UNCHANGED <<level, active_alerts, is_emergency_stopped, led>>
           ELSE /\ active_alerts' = {}
                /\ level' = "SAFE"
                /\ is_emergency_stopped' = FALSE
                /\ led' = SpawnLed(led, "celebration")
                /\ app' = [AppReturn("True") EXCEPT !.distance = d]
    /\ UNCHANGED <<direction, speed, is_moving, emergency_stops_count, stale>>
    /\ UNCHANGED <<configVars, lifeVars, himVars, histVars, mon>>

\* ------------------------------------------------------- LEDController
\* The set_expression calls a pattern makes, one after the other.
PatternLen(kind) ==
    CASE kind = "emergency"   -> 20
      [] kind = "attention"   -> 12
      [] kind = "celebration" -> 14
      [] kind = "emotion"     -> 1          \* show_emotion
      [] kind = "timed"       -> 1          \* _timed_expression

\* LEDExpression value of the idx-th set_expression of a pattern.
PatternExpr(kind, idx) ==
    IF kind = "emotion" THEN 6
    ELSE IF kind = "timed" THEN 0
    ELSE IF kind = "celebration"
    THEN CASE idx = 1 -> 4
           [] idx = 2 -> 2
           [] idx = 3 -> 1
           [] idx = 14 -> 0
           [] OTHER -> IF idx % 2 = 0 THEN 1 ELSE 0
    ELSE IF idx % 2 = 1 THEN 7 ELSE 0

\* The pattern is scheduled, or its sleep between two expressions ends: the
\* pattern returns after its last expression, otherwise set_expression starts
\* and sleeps 0.1 s before it sends.
led_next(i) ==
    /\ led[i].pc \in {"entry", "gap"}
    /\ running = Nobody
    /\ led[i].idx <= MaxLedStep
    /\ led' = IF led[i].idx > PatternLen(led[i].kind)
              THEN [led EXCEPT ![i] = LedFree]
              ELSE [StopAnimation(led, i) EXCEPT ![i] = [@ EXCEPT !.pc = "presleep"]]
    /\ UNCHANGED <<configVars, lifeVars, himVars, histVars, motorVars, safetyVars, chanVars, mon, app>>

\* set_expression sends LED_PATTERN:<n> and awaits the response.
led_send(i) ==
    /\ led[i].pc = "presleep"
    /\ running = Nobody
    /\ LET c == Cmd("LED_PATTERN", PatternExpr(led[i].kind, led[i].idx)) IN
       /\ Send(LedTask(i), <<c>>, devq)
       /\ led' = [led EXCEPT ![i] = [@ EXCEPT !.pc = "wait", !.imm = ImmediateReply(c)]]
    /\ UNCHANGED <<configVars, lifeVars, himVars, histVars, motorVars, safetyVars, mon, app>>

\* set_expression returns; the pattern sleeps before its next expression.
led_done(i) ==
    /\ led[i].pc = "wait"
    /\ MayRun(LedTask(i))
    /\ \E rep \in Replies(LedTask(i), led[i].imm) :
          /\ NoSend(rep.q)
          /\ led' = [led EXCEPT ![i] =
                CASE led[i].kind = "emotion" ->
                        \* show_emotion: `if success and duration`, the timed task
                        IF HasAction(rep.r, "LED_PATTERN")
                        THEN [pc |-> "entry", kind |-> "timed", idx |-> 1, imm |-> Poll]
                        ELSE LedFree
                  [] led[i].kind = "timed" -> LedFree
                  [] OTHER -> [@ EXCEPT !.pc = "gap", !.idx = @ + 1, !.imm = Poll]]
    /\ UNCHANGED <<configVars, lifeVars, himVars, histVars, motorVars, safetyVars, mon, app>>

\* ------------------------------------------------------------- Next
Next ==
    \/ Invoke
    \/ move
    \/ move_done
    \/ stop
    \/ set_speed
    \/ set_speed_done
    \/ emergency_stop
    \/ resume_from_emergency
    \/ move_with_emotion
    \/ move_with_emotion_dispatch
    \/ him_move_with_emotion
    \/ hold_done
    \/ await_led_done
    \/ manual_emergency_stop
    \/ stop_done
    \/ resume_after_emergency
    \/ resume_read
    \/ check_sensors
    \/ sensors_read
    \/ monitor_stop_done
    \/ \E i \in LedIds : led_next(i)
    \/ \E i \in LedIds : led_send(i)
    \/ \E i \in LedIds : led_done(i)
    \/ DeviceSilent

Spec == Init /\ [][Next]_vars

SpecLog == InitLog /\ [][Next]_vars

\* ============================================ lifecycle of the manager
\* HardwareIntegrationManager.initialize() and shutdown(), called on a freshly
\* constructed manager, with the monitoring loop, the LED tasks and the
\* manager's movement and expression calls running beside them.
MaxLifeCalls == 2       \* public operations of the manager called in one behaviour

\* A manager that has just been constructed.
InitFresh ==
    /\ serial_available \in BOOLEAN
    /\ simulation_mode \in BOOLEAN
    /\ sensor_manager \in BOOLEAN
    /\ components_set = FALSE
    /\ conn_open = FALSE
    /\ led_serial = FALSE
    /\ handshake_ok = FALSE
    /\ init_success = {}
    /\ mon = NoTask("off")
    /\ is_monitoring_active = FALSE
    /\ is_initialized = FALSE
    /\ is_operational = FALSE
    /\ is_shutting_down = FALSE
    /\ faults = 0
    /\ InitObjects

\* A manager just constructed, or one that initialize() has brought up on the
\* hardware.
InitLife ==
    /\ InitFresh \/ (InitState /\ ~simulation_mode)
    /\ logging = FALSE

LifeOps == {"initialize", "shutdown", "express_emotion", "him_move_with_emotion"}

\* What no step of the lifecycle changes.
fixedVars == <<serial_available, simulation_mode, sensor_manager>>

\* The task decides to call an operation of the manager.
InvokeLife ==
    /\ app.pc = "idle"
    /\ running = Nobody
    /\ calls < MaxLifeCalls
    /\ calls' = calls + 1
    /\ \E o \in LifeOps :
          app' = [pc |-> "entry", op |-> o,
                  dir |-> IF o = "him_move_with_emotion" THEN "MOVE_FORWARD" ELSE "STOP",
                  spd |-> IF o = "him_move_with_emotion" THEN EmotionalSpeed(100) ELSE 0,
                  ret |-> "pending", imm |-> Poll, distance |-> NoDist,
                  response |-> None]
    /\ UNCHANGED <<configVars, lifeVars, himVars, ticks, motorVars, safetyVars, chanVars, mon, led>>

\* _send_command calls of a task that has already taken the reply it waited
\* for: q is the device's queue without that reply.
SendOn(t, cmds, q) ==
    /\ ChanOpen => Len(q) + Len(cmds) <= MaxPending
    /\ logging => Len(submitted) + Len(cmds) <= MaxWrites
    /\ submitted' = IF logging THEN submitted \o cmds ELSE submitted
    /\ wire' = IF logging /\ ChanOpen THEN SerialWrite(wire, cmds) ELSE wire
    /\ devq' = IF ChanOpen THEN q \o cmds ELSE q
    /\ running' = IF ChanOpen THEN Nobody ELSE t
    /\ logging' = logging

\* An initialize() that goes on to the LED step after a failed step.
InitFailed_ignored == [app EXCEPT !.pc = "init_led_sleep", !.imm = Poll]

\* initialize() returns False: `return False` after a failed step.
InitFailed == AppReturn("False")

\* Step 1 has returned True: `await asyncio.sleep(1.0)` before the LED step.
MotorReady == [app EXCEPT !.pc = "init_led_sleep", !.imm = Poll]

\* HardwareIntegrationManager.initialize() up to its first suspension: the
\* early return of simulation_mode, or MotorController.initialize(), which
\* returns True at once without the serial library or with a connection that is
\* already open, and otherwise opens the port (serial.Serial may raise) and
\* sleeps through the Arduino's boot.
him_initialize ==
    /\ app.pc = "entry" /\ app.op = "initialize"
    /\ MayRun(AppTask)
    /\ NoSend(devq)
    /\ IF simulation_mode
       THEN /\ is_initialized' = TRUE
            /\ is_operational' = TRUE
            /\ init_success' = {}
            /\ app' = AppReturn("True")
            /\ UNCHANGED <<conn_open, handshake_ok>>
       ELSE /\ UNCHANGED <<is_initialized, is_operational>>
            /\ IF ~serial_available \/ conn_open
               THEN /\ init_success' = {"motor"}
                    /\ app' = MotorReady
                    /\ UNCHANGED <<conn_open, handshake_ok>>
               ELSE /\ init_success' = {}
                    /\ handshake_ok' = FALSE
                    /\ \E opened \in BOOLEAN :
                          /\ conn_open' = opened
                          /\ app' = IF opened THEN [app EXCEPT !.pc = "init_boot"]
                                    ELSE InitFailed
    /\ UNCHANGED <<fixedVars, components_set, led_serial, is_shutting_down,
                   is_monitoring_active, faults>>
    /\ UNCHANGED <<himVars, histVars, motorVars, safetyVars, mon, led>>

\* MotorController.initialize after the boot sleep: both buffers are flushed
\* and PING is sent.
motor_ping ==
    /\ app.pc = "init_boot"
    /\ running = Nobody
    /\ \E q \in Flushed : Send(AppTask, <<Plain("PING")>>, q)
    /\ app' = AppWait("init_ping_wait", Plain("PING"))
    /\ UNCHANGED <<configVars, lifeVars, himVars, histVars, motorVars, safetyVars, mon, led>>

\* `response and "PONG" in response`
HasPong(r) == r = Pong

\* The PING is answered or times out.  After PONG: STOP and SET_SPEED:base are
\* written, no response awaited, and initialize() returns True.
motor_ping_done ==
    /\ app.pc = "init_ping_wait"
    /\ MayRun(AppTask)
    /\ \E rep \in Replies(AppTask, app.imm) :
          IF HasPong(rep.r)
          THEN /\ SendOn(AppTask, <<Plain("STOP"), Cmd("SET_SPEED", base_speed)>>, rep.q)
               /\ handshake_ok' = TRUE
               /\ init_success' = {"motor"}
               /\ app' = [MotorReady EXCEPT !.response = rep.r]
          ELSE /\ NoSend(rep.q)
               /\ app' = [InitFailed EXCEPT !.response = rep.r]
               /\ UNCHANGED <<handshake_ok, init_success>>
    /\ UNCHANGED <<configVars, is_initialized, is_operational, sensor_manager,
                   led_serial, is_shutting_down,
                   is_monitoring_active, faults>>
    /\ UNCHANGED <<himVars, histVars, motorVars, safetyVars, mon, led>>

\* Step 2: led_controller.set_arduino_serial(motor_controller), then
\* LEDController.initialize(): with a serial connection the buffers are flushed
\* and it sleeps 0.2 s; then set_expression(OFF) stops the animation and sleeps
\* 0.1 s before it sends.
led_initialize ==
    /\ app.pc = "init_led_sleep"
    /\ running = Nobody
    /\ led_serial' = TRUE
    /\ IF ChanOpen
       THEN /\ \E q \in Flushed : NoSend(q)
            /\ app' = [app EXCEPT !.pc = "init_led_flush"]
            /\ led' = led
       ELSE /\ NoSend(devq)
            /\ app' = [app EXCEPT !.pc = "init_led_presleep"]
            /\ led' = StopAnimation(led, 0)
    /\ UNCHANGED <<configVars, is_initialized, is_operational, init_success,
                   sensor_manager, is_shutting_down,
                   is_monitoring_active, faults, handshake_ok>>
    /\ UNCHANGED <<himVars, histVars, motorVars, safetyVars, mon>>

led_initialize_flushed ==
    /\ app.pc = "init_led_flush"
    /\ running = Nobody
    /\ NoSend(devq)
    /\ app' = [app EXCEPT !.pc = "init_led_presleep"]
    /\ led' = StopAnimation(led, 0)
    /\ UNCHANGED <<configVars, lifeVars, himVars, histVars, motorVars, safetyVars, mon>>

\* The expression and the next position of each set_expression call that the
\* calling task makes: LEDExpression.OFF of LEDController.initialize and
\* shutdown, CURIOUS of the integration test and of express_emotion.
SetExpressionCalls ==
    [init_led_presleep |-> [expr |-> 0, wait |-> "init_led_wait"],
     test_led_presleep |-> [expr |-> 6, wait |-> "test_led_wait"],
     expr_presleep     |-> [expr |-> 6, wait |-> "expr_wait"],
     shut_led_presleep |-> [expr |-> 0, wait |-> "shut_led_wait"]]

\* set_expression after its 0.1 s sleep: LED_PATTERN:<n> is sent and the
\* response awaited.
set_expression ==
    /\ app.pc \in DOMAIN SetExpressionCalls
    /\ running = Nobody
    /\ LET call == SetExpressionCalls[app.pc]
           c == Cmd("LED_PATTERN", call.expr) IN
       /\ Send(AppTask, <<c>>, devq)
       /\ app' = AppWait(call.wait, c)
    /\ UNCHANGED <<configVars, lifeVars, himVars, histVars, motorVars, safetyVars, mon, led>>

\* start_monitoring(): the loop's task is created unless one is alive.
start_monitoring(m) == IF m.pc = "off" THEN NoTask("sleep") ELSE m

\* start_monitoring(): is_monitoring_active = True once the task is created;
\* the early return of "already active" leaves the flag as it is.
MonitoringStarted(m, active) == IF m.pc = "off" THEN TRUE ELSE active

\* set_expression(OFF) of LEDController.initialize has returned.  On success:
\* step 3, SensorManager.initialize() (the GPIO import may fail), step 4,
\* set_robot_components and SafetyMonitor.initialize(), which wants a motor
\* controller and a sensor manager and starts the loop, then step 5 up to the
\* sleep in set_expression of show_emotion("curious", 1.0).
led_initialize_done ==
    /\ app.pc = "init_led_wait"
    /\ MayRun(AppTask)
    /\ \E rep \in Replies(AppTask, app.imm), sensor_ok \in BOOLEAN :
          /\ NoSend(rep.q)
          /\ IF ~HasAction(rep.r, "LED_PATTERN")
             THEN /\ app' = [InitFailed EXCEPT !.response = rep.r]
                  /\ UNCHANGED <<init_success, components_set, mon, led,
                                 is_monitoring_active>>
             ELSE IF ~sensor_manager
             THEN /\ app' = [InitFailed EXCEPT !.response = rep.r]
                  /\ init_success' = init_success \cup {"led"}
                  /\ components_set' = TRUE
                  /\ UNCHANGED <<mon, led, is_monitoring_active>>
             ELSE IF ~sensor_ok
             THEN /\ app' = [InitFailed EXCEPT !.response = rep.r]
                  /\ init_success' = init_success \cup {"led"}
                  /\ UNCHANGED <<components_set, mon, led, is_monitoring_active>>
             ELSE /\ app' = [app EXCEPT !.pc = "test_led_presleep", !.imm = Poll,
                                        !.response = rep.r]
                  /\ init_success' = init_success \cup {"led", "sensor", "safety"}
                  /\ components_set' = TRUE
                  /\ mon' = start_monitoring(mon)
                  /\ is_monitoring_active' = MonitoringStarted(mon, is_monitoring_active)
                  /\ led' = StopAnimation(led, 0)
    /\ UNCHANGED <<fixedVars, conn_open, is_initialized, is_operational,
                   led_serial, is_shutting_down, faults, handshake_ok>>
    /\ UNCHANGED <<himVars, histVars, motorVars, safetyVars>>

\* _run_integration_test: show_emotion has returned; with success its timed
\* expression task is created; `await asyncio.sleep(0.5)`.
test_led_done ==
    /\ app.pc = "test_led_wait"
    /\ MayRun(AppTask)
    /\ \E rep \in Replies(AppTask, app.imm) :
          /\ NoSend(rep.q)
          /\ led' = IF HasAction(rep.r, "LED_PATTERN") THEN SpawnLed(led, "timed") ELSE led
          /\ app' = [app EXCEPT !.pc = "test_sleep", !.imm = Poll, !.response = rep.r]
    /\ UNCHANGED <<configVars, lifeVars, himVars, histVars, motorVars, safetyVars, mon>>

\* The buffers are flushed before the status check; `await asyncio.sleep(0.1)`.
test_flush ==
    /\ app.pc = "test_sleep"
    /\ running = Nobody
    /\ \E q \in Flushed : NoSend(q)
    /\ app' = [app EXCEPT !.pc = "test_flush_sleep"]
    /\ UNCHANGED <<configVars, lifeVars, himVars, histVars, motorVars, safetyVars, mon, led>>

\* get_status(): STATUS is sent and its response awaited.
test_status ==
    /\ app.pc = "test_flush_sleep"
    /\ running = Nobody
    /\ Send(AppTask, <<Plain("STATUS")>>, devq)
    /\ app' = AppWait("test_status_wait", Plain("STATUS"))
    /\ UNCHANGED <<configVars, lifeVars, himVars, histVars, motorVars, safetyVars, mon, led>>

\* `any('error' in str(v).lower() for v in motor_status.values())`: the
\* status that get_status builds for a missing or unparsable line has the key
\* error and the value no_response or invalid_json.
StatusHasError(r) == r = StatusError

\* The status check; when it passes, get_sensor_summary() reads the distance.
test_status_done ==
    /\ app.pc = "test_status_wait"
    /\ MayRun(AppTask)
    /\ \E rep \in Replies(AppTask, app.imm) :
          IF StatusHasError(rep.r)
          THEN /\ NoSend(rep.q)
               /\ app' = [InitFailed EXCEPT !.response = rep.r]
          ELSE /\ SendOn(AppTask, <<Plain("READ_SENSORS")>>, rep.q)
               /\ app' = [AppWait("test_dist_wait", Plain("READ_SENSORS"))
                          EXCEPT !.response = rep.r]
    /\ UNCHANGED <<configVars, lifeVars, himVars, histVars, motorVars, safetyVars, mon, led>>

\* get_sensor_summary(): read_distance() has returned, read_light_sensors()
\* sends READ_SENSORS again.
test_distance_done ==
    /\ app.pc = "test_dist_wait"
    /\ MayRun(AppTask)
    /\ \E rep \in Replies(AppTask, app.imm) :
          /\ SendOn(AppTask, <<Plain("READ_SENSORS")>>, rep.q)
          /\ app' = [AppWait("test_light_wait", Plain("READ_SENSORS"))
                     EXCEPT !.distance = DistanceOf(rep.r)]
    /\ UNCHANGED <<configVars, lifeVars, himVars, histVars, motorVars, safetyVars, mon, led>>

\* The integration test passes and initialize() returns True.
test_light_done ==
    /\ app.pc = "test_light_wait"
    /\ MayRun(AppTask)
    /\ \E rep \in Replies(AppTask, app.imm) : NoSend(rep.q)
    /\ init_success' = init_success \cup {"test"}
    /\ is_initialized' = TRUE
    /\ is_operational' = TRUE
    /\ app' = AppReturn("True")
    /\ UNCHANGED <<configVars, sensor_manager, led_serial, is_shutting_down,
                   is_monitoring_active, faults,
                   handshake_ok>>
    /\ UNCHANGED <<himVars, histVars, motorVars, safetyVars, mon, led>>

\* MotorController.shutdown(): stop() first.
MotorShutdown(q) ==
    /\ SendOn(AppTask, <<Plain("STOP")>>, q)
    /\ app' = AppWait("shut_motor_stop_wait", Plain("STOP"))

\* LEDController.shutdown(): _stop_animation, then set_expression(OFF), which
\* returns at once without a serial link and otherwise sleeps before it sends.
LedShutdown(q) ==
    /\ led' = StopAnimation(led, 0)
    /\ IF led_serial
       THEN /\ NoSend(q)
            /\ app' = [app EXCEPT !.pc = "shut_led_presleep", !.imm = Poll]
       ELSE MotorShutdown(q)

\* A shutdown that leaves the monitoring loop running.
stop_monitoring_skipped == mon

\* stop_monitoring(): the loop's task is cancelled and awaited.
stop_monitoring == NoTask("off")

\* HardwareIntegrationManager.shutdown() up to its first suspension:
\* is_operational = False, SafetyMonitor.shutdown() (the flag, stop_monitoring,
\* a stop() when the attached motor controller is moving), then the LED
\* controller's shutdown.
him_shutdown ==
    /\ app.pc = "entry" /\ app.op = "shutdown"
    /\ MayRun(AppTask)
    /\ is_operational' = FALSE
    /\ is_shutting_down' = TRUE
    /\ mon' = stop_monitoring
    /\ is_monitoring_active' = FALSE
    /\ IF components_set /\ is_moving
       THEN /\ Send(AppTask, <<Plain("STOP")>>, devq)
            /\ app' = AppWait("shut_safety_stop_wait", Plain("STOP"))
            /\ led' = led
       ELSE LedShutdown(devq)
    /\ UNCHANGED <<configVars, is_initialized, init_success, sensor_manager,
                   led_serial, faults, handshake_ok>>
    /\ UNCHANGED <<himVars, histVars, motorVars, safetyVars>>

\* The final safety check's stop() has returned.
shutdown_safety_stop_done ==
    /\ app.pc = "shut_safety_stop_wait"
    /\ MayRun(AppTask)
    /\ \E rep \in Replies(AppTask, app.imm) :
          LET stopped == HasAction(rep.r, "STOP") IN
          /\ direction' = IF stopped THEN "STOP" ELSE direction
          /\ is_moving' = IF stopped THEN FALSE ELSE is_moving
          /\ LedShutdown(rep.q)
    /\ UNCHANGED <<speed, is_emergency_stopped>>
    /\ UNCHANGED <<configVars, lifeVars, himVars, histVars, safetyVars, mon>>

\* set_expression(OFF) of the LED shutdown has returned.
shutdown_led_done ==
    /\ app.pc = "shut_led_wait"
    /\ MayRun(AppTask)
    /\ \E rep \in Replies(AppTask, app.imm) : MotorShutdown(rep.q)
    /\ UNCHANGED <<configVars, lifeVars, himVars, histVars, motorVars, safetyVars, mon, led>>

\* MotorController.shutdown after its stop(): the serial connection is closed
\* when it is open; then SensorManager.cleanup() and is_initialized = False.
shutdown_motor_done ==
    /\ app.pc = "shut_motor_stop_wait"
    /\ MayRun(AppTask)
    /\ \E rep \in Replies(AppTask, app.imm) :
          LET stopped == HasAction(rep.r, "STOP") IN
          /\ direction' = IF stopped THEN "STOP" ELSE direction
          /\ is_moving' = IF stopped THEN FALSE ELSE is_moving
          /\ NoSend(IF conn_open THEN <<>> ELSE rep.q)
          /\ app' = [AppReturn("None") EXCEPT !.response = rep.r]
    /\ conn_open' = FALSE
    /\ handshake_ok' = FALSE
    /\ is_initialized' = FALSE
    /\ UNCHANGED <<speed, is_emergency_stopped>>
    /\ UNCHANGED <<fixedVars, components_set, is_operational, init_success,
                   led_serial, is_shutting_down,
                   is_monitoring_active, faults>>
    /\ UNCHANGED <<himVars, histVars, safetyVars, mon, led>>

\* `while not self._is_shutting_down` ends the loop of a task that was started
\* after a shutdown.
monitor_exit ==
    /\ mon.pc = "sleep"
    /\ running = Nobody
    /\ is_shutting_down
    /\ mon' = NoTask("off")
    /\ UNCHANGED <<configVars, lifeVars, himVars, histVars, motorVars, safetyVars, chanVars, led, app>>

\* HardwareIntegrationManager.express_emotion(emotion) up to the sleep of
\* set_expression.
him_express_emotion ==
    /\ app.pc = "entry" /\ app.op = "express_emotion"
    /\ MayRun(AppTask)
    /\ NoSend(devq)
    /\ IF is_operational /\ led_serial
       THEN /\ led' = StopAnimation(led, 0)
            /\ app' = [app EXCEPT !.pc = "expr_presleep"]
       ELSE /\ led' = led
            /\ app' = AppReturn("False")
    /\ UNCHANGED <<configVars, lifeVars, himVars, histVars, motorVars, safetyVars, mon>>

ExpressionCounted(st) == [st EXCEPT !.total_expressions = @ + 1]

\* show_emotion has returned (no duration, so no timed task).
express_emotion_done ==
    /\ app.pc = "expr_wait"
    /\ MayRun(AppTask)
    /\ \E rep \in Replies(AppTask, app.imm) :
          LET shown == HasAction(rep.r, "LED_PATTERN") IN
          /\ NoSend(rep.q)
          /\ stats' = IF shown THEN ExpressionCounted(stats) ELSE stats
          /\ app' = [AppReturn(Bool(shown)) EXCEPT !.response = rep.r]
    /\ UNCHANGED <<configVars, lifeVars, histVars, motorVars, safetyVars, mon, led>>

\* ---------------------------------------------- faults inside a tick
MaxFaults == 1          \* faults raised inside monitoring ticks in one behaviour

\* An exception is raised in _check_sensors once the distance has been read:
\* its `except Exception` logs the fault, and the loop goes on with
\* _check_communication and its sleep.
sensors_fault ==
    /\ mon.pc = "read_wait"
    /\ MayRun(MonTask)
    /\ faults < MaxFaults
    /\ faults' = faults + 1
    /\ \E rep \in Replies(MonTask, mon.imm) :
        LET d  == DistanceOf(rep.r)
            st == IF d # NoDist THEN FALSE ELSE (stale \/ rep.timed_out)
        IN
        /\ level' = CommLevel(level, active_alerts, st)
        /\ active_alerts' = CommAlerts(active_alerts, st)
        /\ stale' = st
        /\ mon' = [NoTask("sleep") EXCEPT !.distance = d]
        /\ NoSend(rep.q)
    /\ UNCHANGED <<configVars, is_initialized, is_operational, init_success,
                   sensor_manager, led_serial, is_shutting_down,
                   is_monitoring_active, handshake_ok>>
    /\ UNCHANGED <<himVars, histVars, motorVars, emergency_stops_count, led, app>>

\* An exception is raised by a statement of the loop's body outside the two
\* checks: it leaves the `while`, and the handler of _monitoring_loop calls
\* trigger_emergency_stop(SYSTEM_ERROR), after which the task ends.
loop_fault ==
    /\ mon.pc = "sleep"
    /\ MayRun(MonTask)
    /\ ~is_shutting_down
    /\ ticks > 0
    /\ faults < MaxFaults
    /\ faults' = faults + 1
    /\ trigger_emergency_stop(MonTask, "SYSTEM_ERROR", devq)
    /\ mon' = IF components_set
              THEN [pc |-> "stop_wait", cont |-> "fatal", distance |-> mon.distance,
                    imm |-> ImmediateReply(Plain("STOP"))]
              ELSE NoTask("off")
    /\ UNCHANGED <<configVars, is_initialized, is_operational, init_success,
                   sensor_manager, led_serial, is_shutting_down,
                   is_monitoring_active, handshake_ok>>
    /\ UNCHANGED <<himVars, histVars, stale, led, app>>

\* ------------------------------------------------------------- NextLife
NextLife ==
    \/ InvokeLife
    \/ him_initialize
    \/ motor_ping
    \/ motor_ping_done
    \/ led_initialize
    \/ led_initialize_flushed
    \/ set_expression
    \/ led_initialize_done
    \/ test_led_done
    \/ test_flush
    \/ test_status
    \/ test_status_done
    \/ test_distance_done
    \/ test_light_done
    \/ him_shutdown
    \/ shutdown_safety_stop_done
    \/ shutdown_led_done
    \/ shutdown_motor_done
    \/ him_express_emotion
    \/ express_emotion_done
    \/ him_move_with_emotion
    \/ move_with_emotion_dispatch
    \/ move_done
    \/ hold_done
    \/ stop_done
    \/ await_led_done
    \/ check_sensors
    \/ sensors_read
    \/ monitor_stop_done
    \/ monitor_exit
    \/ \E i \in LedIds : led_next(i)
    \/ \E i \in LedIds : led_send(i)
    \/ \E i \in LedIds : led_done(i)
    \/ DeviceSilent

SpecLife == InitLife /\ [][NextLife]_vars

\* ------------------------------------------------ the scheduling of asyncio
\* The event loop runs every task that is ready: a task polling for its reply
\* (`await asyncio.sleep(0.001)` in _send_command) or sleeping is resumed, and
\* the device takes the lines written to it off the connection.  The calls of
\* the application and the start of a monitoring tick are not forced.
Scheduling ==
    /\ WF_vars(move_done)
    /\ WF_vars(set_speed_done)
    /\ WF_vars(stop_done)
    /\ WF_vars(resume_read)
    /\ WF_vars(sensors_read)
    /\ WF_vars(monitor_stop_done)
    /\ \A i \in LedIds : WF_vars(led_done(i))
    /\ WF_vars(DeviceSilent)

SpecFair == InitLog /\ [][Next]_vars /\ Scheduling

\* ------------------------------------------- the monitoring loop on its own
\* The loop of an initialised monitor, its LED pattern tasks and the device,
\* with no call of the application: longer runs of ticks, and ticks that
\* meet a fault.  Until the next reading arrives the task's record keeps the
\* previous tick's reading.
MaxEpisodeTicks == 3

episode_tick == StartTick(MaxEpisodeTicks, mon.distance)

InitEpisode == InitHardware /\ Init

NextEpisode ==
    \/ episode_tick
    \/ sensors_read
    \/ monitor_stop_done
    \/ sensors_fault
    \/ loop_fault
    \/ \E i \in LedIds : led_next(i)
    \/ \E i \in LedIds : led_send(i)
    \/ \E i \in LedIds : led_done(i)
    \/ DeviceSilent

SpecEpisode == InitEpisode /\ [][NextEpisode]_vars

\* ====================================================== checked properties
\* Steps of the calling task.
ResumeReturnsTrue ==
    /\ app.op = "resume_after_emergency"
    /\ app.pc \in {"entry", "resume_read"}
    /\ app'.pc = "idle"
    /\ app'.ret = "True"

\* A move_forward / move_backward / turn_left / turn_right call is entered:
\* directly, or by MotorController.move_with_emotion once it dispatches.
MoveCalled ==
    \/ app.pc = "entry" /\ app.op = "move"
    \/ app.pc = "mwe_sleep" /\ app.dir # "STOP"
    \/ app.pc = "entry" /\ app.op = "move_with_emotion" /\ ~conn_open /\ app.dir # "STOP"

\* A task that has written its command and polls for the response.
Exchanging(task) ==
    /\ task.pc \in {"move_wait", "stop_wait", "speed_wait", "resume_read",
                  "read_wait", "wait"}
    /\ task.imm = Poll

ExchangesInFlight ==
    (IF Exchanging(app) THEN 1 ELSE 0)
    + (IF Exchanging(mon) THEN 1 ELSE 0)
    + Cardinality({i \in LedIds : Exchanging(led[i])})

\* C1: in every reachable state, SafetyStatus.level == EMERGENCY implies that
\* the motor latch _is_emergency_stopped is true.
C1_EmergencyImpliesLatch ==
    level = "EMERGENCY" => is_emergency_stopped

\* C2: in every reachable state, MotorState.is_moving implies that the
\* emergency latch is false.
C2_MovingImpliesNoLatch ==
    is_moving => ~is_emergency_stopped

\* C3: a move_* call entered while the emergency latch is set returns False in
\* that same step, writes no command to the channel (no SET_SPEED, no motion
\* command) and leaves MotorState and the latch as they were.
C3_NoMotionWhileLatched ==
    [][(MoveCalled /\ is_emergency_stopped /\ app' # app)
        => /\ app'.pc \in {"idle", "await_led"}
           /\ app'.ret = "False"
           /\ devq' = devq
           /\ wire' = wire
           /\ submitted' = submitted
           /\ UNCHANGED motorVars]_vars

\* C3 happens: a move called with the latch set has returned False; the speed
\* a move sets before it writes is still the initial one.
C3_Witness ==
    /\ app.pc = "idle"
    /\ app.op = "move"
    /\ app.ret = "False"
    /\ is_emergency_stopped
    /\ speed = 0
    /\ devq = <<>>

\* C4: a monitoring tick whose reading d satisfies d <= emergency_stop_distance
\* ends with OBSTACLE_TOO_CLOSE in active_alerts, level EMERGENCY and the motor
\* latch set.
C4_EmergencyWithinTick ==
    [][(/\ mon.pc \in {"read_wait", "stop_wait"}
        /\ mon'.pc = "sleep"
        /\ mon'.distance # NoDist
        /\ mon'.distance <= emergency_stop_distance)
        => /\ "OBSTACLE_TOO_CLOSE" \in active_alerts'
           /\ level' = "EMERGENCY"
           /\ is_emergency_stopped']_vars

\* C5: the safety level (SAFE < WARNING < DANGER < EMERGENCY) never decreases
\* in a step, unless the step is a resume_after_emergency call returning True.
C5_LevelNeverDecreases ==
    [][LevelRank(level') < LevelRank(level) => ResumeReturnsTrue]_vars

\* C6: once the level is EMERGENCY it stays EMERGENCY until a
\* resume_after_emergency call returns True.
C6_EmergencyHeldUntilResume ==
    [][(level = "EMERGENCY" /\ level' # "EMERGENCY") => ResumeReturnsTrue]_vars

\* C7: resume_after_emergency, when the distance it reads is
\* d <= emergency_stop_distance, returns False and leaves the level, the
\* alerts and the motor latch unchanged; so does its step up to the reading.
C7_ResumeRefusedWhileTooClose ==
    [][(/\ app.op = "resume_after_emergency"
        /\ app.pc \in {"entry", "resume_read"}
        /\ components_set
        /\ app' # app
        /\ app'.pc = "idle" => /\ app'.distance # NoDist
                               /\ app'.distance <= emergency_stop_distance)
        => /\ app'.pc = "idle" => app'.ret = "False"
           /\ level' = level
           /\ active_alerts' = active_alerts
           /\ is_emergency_stopped' = is_emergency_stopped]_vars

\* C7 happens: in an emergency, resume_after_emergency has read exactly
\* emergency_stop_distance and has returned False.
C7_Witness ==
    /\ app.pc = "idle"
    /\ app.op = "resume_after_emergency"
    /\ app.distance = emergency_stop_distance
    /\ app.ret = "False"
    /\ level = "EMERGENCY"
    /\ is_emergency_stopped

\* C8: at most one channel exchange (from the write of a command until its
\* response is read or its timeout expires) is in flight at any time.
C8_OneExchangeInFlight ==
    ExchangesInFlight <= 1

C10_LatchSetByEmergencyStop ==
    (app.op = "emergency_stop" /\ app.pc \in {"stop_wait", "idle"})
        => is_emergency_stopped

\* C10 happens: emergency_stop() has returned False on an open channel (the
\* STOP was not acknowledged) and the latch is set.
C10_Witness ==
    /\ app.op = "emergency_stop"
    /\ app.pc = "idle"
    /\ app.ret = "False"
    /\ ChanOpen
    /\ is_emergency_stopped

\* C11: stop() is accepted whatever the latch: entered, it issues STOP (on an
\* open connection the command is written) without touching MotorState or the
\* latch; when its response is ACTION:STOP it sets direction = STOP and
\* is_moving = false and returns True, otherwise it changes neither; it never
\* changes the latch.
C11_StopAlwaysAccepted ==
    [][/\ (app.pc = "entry" /\ app.op = "stop" /\ app' # app)
            => /\ app'.pc = "stop_wait"
               /\ ChanOpen => devq' = Append(devq, Plain("STOP"))
               /\ UNCHANGED motorVars
       /\ (app.pc = "stop_wait" /\ app.op = "stop" /\ app'.pc = "idle")
            => /\ is_emergency_stopped' = is_emergency_stopped
               /\ speed' = speed
               /\ IF app'.response = Action("STOP")
                  THEN app'.ret = "True" /\ direction' = "STOP" /\ ~is_moving'
                  ELSE app'.ret = "False" /\ UNCHANGED <<direction, is_moving>>]_vars

\* C11 happens: with the latch set, stop() has been
\* acknowledged on the open channel.
C11_Witness ==
    /\ app.op = "stop"
    /\ app.pc = "idle"
    /\ app.ret = "True"
    /\ app.response = Action("STOP")
    /\ ChanOpen
    /\ is_emergency_stopped
    /\ direction = "STOP"
    /\ ~is_moving

\* C12: a move method updates direction and is_moving, and returns True, only
\* when the response to its directional command is that command's
\* ACTION:<CMD>; on any other response and on timeout it returns False and
\* leaves both unchanged.
C12_MoveStateOnlyOnAck ==
    [][(app.pc = "move_wait" /\ app'.pc = "idle")
        => IF app'.response = Action(app.dir)
           THEN app'.ret = "True" /\ direction' = app.dir /\ is_moving'
           ELSE app'.ret = "False" /\ UNCHANGED <<direction, is_moving>>]_vars

\* C12 happens: a move has read the acknowledgement of another command
\* (ACTION:SPEED_SET of its own SET_SPEED) and has returned False, the motor
\* state as it was.
C12_Witness ==
    /\ app.op = "move"
    /\ app.pc = "idle"
    /\ app.ret = "False"
    /\ app.response = Action("SPEED_SET")
    /\ direction = "STOP"
    /\ ~is_moving

\* C13: MotorState.speed changes only in a step that has read ACTION:SPEED_SET
\* as the response to a SET_SPEED command, in set_speed and in the move
\* methods alike.
C13_SpeedOnlyAfterAck ==
    [][speed' # speed
        => /\ app.pc \in {"speed_wait", "move_wait"}
           /\ app'.response = Action("SPEED_SET")]_vars

\* C14: manual_emergency_stop() raises emergency_stops_count by exactly 1 and
\* returns with MANUAL_EMERGENCY in active_alerts, level EMERGENCY and the
\* motor latch set.
C14_ManualEmergencyStop ==
    [][/\ (app.op = "manual_emergency_stop" /\ app.pc = "entry" /\ app' # app)
            => emergency_stops_count' = emergency_stops_count + 1
       /\ (/\ app.op = "manual_emergency_stop"
           /\ app.pc \in {"entry", "stop_wait"}
           /\ app'.pc = "idle")
            => /\ "MANUAL_EMERGENCY" \in active_alerts'
               /\ level' = "EMERGENCY"
               /\ is_emergency_stopped']_vars

\* C15: whenever HardwareIntegrationManager.emergency_stop() returns True, in
\* hardware mode and in simulation_mode, the motor latch is set, the level is
\* EMERGENCY and stats['safety_stops'] has increased by exactly 1.
C15_HimEmergencyStop ==
    [][(/\ app.op = "him_emergency_stop"
        /\ app.pc \in {"entry", "stop_wait"}
        /\ app'.pc = "idle"
        /\ app'.ret = "True")
        => /\ is_emergency_stopped'
           /\ level' = "EMERGENCY"
           /\ stats'.safety_stops = stats.safety_stops + 1]_vars

\* C16: with level SAFE and the latch clear, a monitoring tick that reads a
\* distance d with emergency_stop_distance < d <= min_obstacle_distance ends
\* with level WARNING, the latch still clear and emergency_stops_count
\* unchanged.
C16_WarningTick ==
    [][(/\ mon.pc = "read_wait"
        /\ mon'.pc = "sleep"
        /\ level = "SAFE"
        /\ ~is_emergency_stopped
        /\ mon'.distance > emergency_stop_distance
        /\ mon'.distance <= min_obstacle_distance)
        => /\ level' = "WARNING"
           /\ ~is_emergency_stopped'
           /\ emergency_stops_count' = emergency_stops_count]_vars

\* C16 happens: a tick has read exactly min_obstacle_distance and has ended
\* with level WARNING, nothing latched or counted.
C16_Witness ==
    /\ mon.pc = "sleep"
    /\ mon.distance = min_obstacle_distance
    /\ level = "WARNING"
    /\ active_alerts = {}
    /\ ~is_emergency_stopped
    /\ emergency_stops_count = 0

\* A monitoring tick ends: the loop goes to sleep.
TickEnds == mon.pc \in {"read_wait", "stop_wait"} /\ mon'.pc = "sleep"

\* The level an alert calls for.
AlertRank(a) ==
    IF a \in {"SENSOR_FAILURE", "COMMUNICATION_LOST"}
    THEN LevelRank("DANGER") ELSE LevelRank("EMERGENCY")

\* C17: a tick that gets no reading ends with SENSOR_FAILURE active and level
\* DANGER or EMERGENCY; a tick that ends with the last reading older than 2 s
\* ends with COMMUNICATION_LOST active and level DANGER or EMERGENCY.
C17_SensorLossRaisesDanger ==
    [][TickEnds
        => /\ mon'.distance = NoDist
                => /\ "SENSOR_FAILURE" \in active_alerts'
                   /\ level' \in {"DANGER", "EMERGENCY"}
           /\ stale'
                => /\ "COMMUNICATION_LOST" \in active_alerts'
                   /\ level' \in {"DANGER", "EMERGENCY"}]_vars

\* C18: in every reachable state the level is at least as severe as the level
\* each active alert calls for; so level SAFE implies no active alert.
C18_LevelCoversAlerts ==
    \A a \in active_alerts : LevelRank(level) >= AlertRank(a)

\* C19: while the safety level is EMERGENCY no movement command of the
\* manager is in progress: a move_with_emotion that is holding its movement
\* (the sleep of `duration` between the motion command and the stop) is
\* interrupted when the level becomes EMERGENCY.
C19_NoMovementInProgressAtEmergency ==
    ~(level = "EMERGENCY" /\ app.op = "him_move_with_emotion" /\ app.pc = "hold")

\* The manager's move_with_emotion is entered (the shortcuts move_forward,
\* move_backward, turn_left, turn_right and stop_all enter nothing else).
HimMoveCalled == app.pc = "entry" /\ app.op = "him_move_with_emotion"

\* C20: a movement call to the manager made while the safety level is DANGER
\* or EMERGENCY returns False at once: nothing is written to the channel, no
\* LED task is started, MotorState and the statistics stay as they were; and
\* is_safe() is False at exactly those levels.
C20_UnsafeLevelRefusesMovement ==
    /\ [][(HimMoveCalled /\ level \in {"DANGER", "EMERGENCY"} /\ app' # app)
            => /\ app'.pc = "idle"
               /\ app'.ret = "False"
               /\ devq' = devq
               /\ led' = led
               /\ UNCHANGED <<motorVars, himVars>>]_vars
    /\ [](is_safe <=> level \notin {"DANGER", "EMERGENCY"})

\* A manager movement call made at level DANGER or EMERGENCY has returned False.
C20_Witness ==
    /\ app.op = "him_move_with_emotion" /\ app.pc = "idle" /\ app.ret = "False"
    /\ app.response = None
    /\ level \in {"DANGER", "EMERGENCY"}
    /\ stats.total_movements = 0

\* ------------------------------------------------ lifecycle properties
\* A movement or expression call of the manager is entered.
HimCallEntered ==
    app.pc = "entry" /\ app.op \in {"him_move_with_emotion", "express_emotion"}

\* C21: is_operational is False before a successful initialize(), after an
\* initialize() that returned False and once shutdown() has begun; while it is
\* False move_with_emotion and express_emotion return False at once and write
\* nothing to the channel; it becomes True only when initialize() returns True.
C21_OperationalOnlyAfterInitialize ==
    /\ []((app.op = "initialize" /\ app.pc = "idle" /\ app.ret = "False")
            => ~is_operational)
    /\ []((app.op = "shutdown" /\ app.pc # "entry") => ~is_operational)
    /\ [][(HimCallEntered /\ ~is_operational /\ app' # app)
            => /\ app'.pc = "idle"
               /\ app'.ret = "False"
               /\ devq' = devq
               /\ led' = led]_vars
    /\ [][(~is_operational /\ is_operational')
            => (app.op = "initialize" /\ app'.pc = "idle" /\ app'.ret = "True")]_vars

\* initialize() has returned False.
InitializeReturnedFalse ==
    app.op = "initialize" /\ app.pc = "idle" /\ app.ret = "False"

\* C22: whenever initialize() has returned False, whichever step failed, the
\* monitoring loop is not running.
C22_NoLoopAfterFailedInitialize ==
    InitializeReturnedFalse => mon.pc = "off"

\* The steps of initialize() in their order.
InitSteps == <<"motor", "led", "sensor", "safety", "test">>

\* The steps that have succeeded are the first ones of the order.
InOrder(done) ==
    \A i \in 1..Len(InitSteps) :
        InitSteps[i] \in done => \A j \in 1..i : InitSteps[j] \in done

ShutdownBegun == app.op = "shutdown" /\ app.pc # "entry"

\* The serial connection is closed in this step.
ConnectionClosed == conn_open /\ ~conn_open'

\* C24: shutdown() tears down Safety Monitor, LED, Motor, channel in that
\* order: from the stop of the monitor on no tick starts or continues, the
\* motor controller's shutdown writes STOP before the connection is closed, and
\* the close is the last thing shutdown() does, after the LED shutdown.
C24_ShutdownOrder ==
    /\ [](ShutdownBegun => mon.pc = "off")
    /\ [][ShutdownBegun => ticks' = ticks]_vars
    /\ [][(app.op = "shutdown" /\ app.pc # "shut_motor_stop_wait"
           /\ app'.pc = "shut_motor_stop_wait" /\ ChanOpen)
            => (devq' # <<>> /\ devq'[Len(devq')] = Plain("STOP"))]_vars
    /\ [][(app.op = "shutdown" /\ app.pc \in {"shut_led_presleep", "shut_led_wait"})
            => conn_open' = conn_open]_vars
    /\ [][ConnectionClosed
            => /\ app.op = "shutdown" /\ app.pc = "shut_motor_stop_wait"
               /\ app'.pc = "idle"
               /\ mon.pc = "off"]_vars

\* shutdown() of a manager whose loop had ticked has returned: the loop is
\* stopped, the LED controller had its serial link, the motor's STOP was
\* acknowledged and the connection is closed.
C24_Witness ==
    /\ app.op = "shutdown" /\ app.pc = "idle"
    /\ app.response = Action("STOP")
    /\ ticks > 0
    /\ led_serial
    /\ ~conn_open /\ ~is_initialized /\ ~is_operational
    /\ mon.pc = "off"

\* The LED animations: the timed expression of show_emotion and the pattern
\* sequences.
Animations == {"timed", "emergency", "attention", "celebration"}

\* An animation other than the caller's own task is still running.
AnimationAlive(l, self) ==
    \E j \in LedIds : j # self /\ l[j].pc # "free" /\ l[j].kind \in Animations

\* C25: whenever set_expression writes its LED_PATTERN command, every LED
\* animation started earlier (timed expression or pattern sequence) has been
\* cancelled: none is alive beside the caller.
C25_AnimationsCancelledBeforeExpression ==
    [][/\ (app.pc \in DOMAIN SetExpressionCalls /\ app'.pc # app.pc)
            => ~AnimationAlive(led', 0)
       /\ \A i \in LedIds :
            (led[i].pc = "presleep" /\ led'[i].pc = "wait")
                => ~AnimationAlive(led', i)]_vars

\* A step in which a tick of the monitoring loop meets a fault.
TickFaulted == faults' > faults

\* The monitoring task ends.
LoopEnded == mon.pc # "off" /\ mon'.pc = "off"

\* C26: a fault raised inside one monitoring tick does not terminate the
\* monitoring loop: the faulty tick leaves the loop alive, and the loop ends
\* only once the shutdown of the monitor (or stop_monitoring) has been
\* requested.
C26_FaultDoesNotEndLoop ==
    /\ [][TickFaulted => mon'.pc # "off"]_vars
    /\ [][LoopEnded => is_shutting_down']_vars

\* C27: an unexpected fault raised while a tick checks the sensors is caught
\* and escalated: SYSTEM_ERROR is recorded, the level is EMERGENCY and the
\* emergency latch of the motor controller is set.
C27_FaultEscalatesToEmergency ==
    [][(TickFaulted /\ mon.pc = "read_wait") =>
          /\ "SYSTEM_ERROR" \in active_alerts'
          /\ level' = "EMERGENCY"
          /\ is_emergency_stopped']_vars

\* The step in which MotorController.initialize() returns True to
\* HardwareIntegrationManager.initialize().
MotorInitializeReturnsTrue ==
    /\ app.op = "initialize"
    /\ app.pc \in {"entry", "init_ping_wait"}
    /\ app'.pc = MotorReady.pc

\* C28: on a real serial device MotorController.initialize() returns True
\* only if a PING sent on the open connection was answered with PONG; a
\* connection whose handshake failed is not reported as initialized later,
\* also not by a second call of initialize().
C28_InitializedOnlyAfterHandshake ==
    [][(serial_available /\ ~simulation_mode /\ MotorInitializeReturnsTrue)
          => handshake_ok']_vars

\* One command of each kind of the wire protocol.
WireCommands ==
    {Plain(n) : n \in MotorDirection \cup {"PING", "STATUS", "READ_SENSORS"}}
        \cup {Cmd("SET_SPEED", base_speed), Cmd("LED_PATTERN", 0)}

\* The caller is inside set_expression, awaiting the response to LED_PATTERN.
AwaitsLedResponse ==
    \E pc \in DOMAIN SetExpressionCalls : app.pc = SetExpressionCalls[pc].wait

\* C29: without the serial library the synthesized response to every command
\* of the wire protocol holds that command's acknowledgement: the response a
\* caller of set_expression is given acknowledges its LED_PATTERN, and so does
\* the canned response to each other command of the protocol.
C29_SimulationAcknowledgesEveryCommand ==
    (~serial_available /\ AwaitsLedResponse) =>
        /\ app.imm \in AckOf(Cmd("LED_PATTERN", 0))
        /\ \A c \in WireCommands : SimResponse(c) \in AckOf(c)


\* C30: every SET_SPEED:<n> written to the channel carries 0 <= n <= max_speed
\* and MotorState.speed stays within [0, 255], whatever integer speed is
\* passed to set_speed or to a movement.
C30_SpeedWithinBounds ==
    /\ speed \in 0..255
    /\ \A i \in DOMAIN devq :
          devq[i].name = "SET_SPEED" => devq[i].arg \in 0..max_speed

\* The program counters at which the calling task is inside _send_command,
\* polling for a response.
AppWaits == {"move_wait", "speed_wait", "stop_wait", "resume_read"}

\* The emergency stop of a sensor-failure tick would pass a bound of the
\* model: the count of emergency stops or the length of the kept history.
TickAtBound == emergency_stops_count = MaxStops \/ Len(submitted) = MaxWrites

\* C31: every _send_command call that expects a response terminates: the
\* task polling for it goes on, with a line or with None once the timeout has
\* passed, also when the device never answers.
C31_SendCommandTerminates ==
    /\ \A w \in AppWaits : app.pc = w ~> app.pc # w
    /\ mon.pc = "stop_wait" ~> mon.pc # "stop_wait"
    /\ mon.pc = "read_wait" ~> (mon.pc # "read_wait" \/ TickAtBound)
    /\ \A i \in LedIds : led[i].pc = "wait" ~> led[i].pc # "wait"

\* move_forward on an open connection has returned False after its poll loop
\* ended with None: the device had not answered.
C31_Witness ==
    /\ ChanOpen
    /\ app.op = "move" /\ app.pc = "idle"
    /\ app.response = None
    /\ app.ret = "False"

\* The poll loop of the calling task's move_* ends with a line.
MoveTakesLine ==
    /\ ChanOpen
    /\ app.pc = "move_wait" /\ app'.pc # "move_wait"
    /\ app'.response # None

\* The poll loop of the monitoring tick's read_distance ends with a line.
TickTakesLine ==
    /\ ChanOpen
    /\ mon.pc = "read_wait" /\ mon'.pc # "read_wait"
    /\ devq # <<>> /\ devq' = Tail(devq)

\* C32: the line _send_command returns to the caller that sent command C is
\* the device's reply to C: the line a move_* call takes answers its motion
\* command and the line a monitoring tick takes answers its READ_SENSORS,
\* whatever the other callers have written.
C32_ReplyAnswersOwnCommand ==
    /\ [][MoveTakesLine => Head(devq) = Plain(app.dir)]_vars
    /\ [][TickTakesLine => Head(devq) = Plain("READ_SENSORS")]_vars

\* The commands of the protocol that start or end a motion.
MotionCommand(c) == c.name \in MotorDirection

\* The positions of the written history that hold a motion command or a STOP.
MotionWrites(w) == {i \in DOMAIN w : MotionCommand(w[i])}

\* The last motion-affecting command written is a STOP, if there is any.
LastMotionIsStop(w) ==
    \A i \in MotionWrites(w) :
        (\A j \in MotionWrites(w) : j <= i) => w[i].name = "STOP"

\* A step writes one of MOVE_FORWARD, MOVE_BACKWARD, TURN_LEFT, TURN_RIGHT.
MotionWritten ==
    \E i \in DOMAIN wire' :
        i > Len(wire) /\ wire'[i].name \in MoveDirections

\* C33: whenever a motion command is written to the channel the emergency
\* latch is false, before and after the step that writes it; and while the
\* latch is set the last motion-affecting command on the channel is a STOP.
C33_NoMotionWhileLatched ==
    /\ [][MotionWritten => ~is_emergency_stopped /\ ~is_emergency_stopped']_vars
    /\ [](is_emergency_stopped => LastMotionIsStop(wire))

\* MotorController.move_with_emotion was called, the monitoring tick set the
\* latch and wrote STOP, and the move was refused: STOP is the last command.
C33_Witness ==
    /\ app.op = "move_with_emotion" /\ app.dir # "STOP"
    /\ app.pc = "idle" /\ app.ret = "False"
    /\ calls = 1
    /\ is_emergency_stopped
    /\ wire # <<>>
    /\ wire[Len(wire) - 1] = Plain("STOP")

\* C34: whenever is_safe_to_move() is True (level SAFE or WARNING) the
\* emergency latch of the motor controller is clear; a tick that brings the
\* level back to SAFE does not leave the latch of a sensor failure set.
\* Checked where the application has called nothing, so that only the
\* monitoring loop can have set the latch.
C34_SafeToMoveImpliesUnlatched ==
    /\ []((calls = 0 /\ is_safe_to_move) => ~is_emergency_stopped)
    /\ [][(calls = 0 /\ mon.pc = "read_wait" /\ ~is_safe_to_move /\ is_safe_to_move')
            => ~is_emergency_stopped']_vars


\* The monitoring loop's task exists and has not finished.
LoopAlive == mon.pc # "off"

\* C35: SafetyStatus.is_monitoring_active is True exactly when the monitoring
\* loop's task exists and has not finished: it is False after the loop has
\* ended with a fault, and after an initialize() that follows a shutdown().
C35_MonitoringFlagMatchesLoop == is_monitoring_active <=> LoopAlive

\* A reading at or below emergency_stop_distance.
TooClose(d) == d # NoDist /\ d <= emergency_stop_distance

\* The tick's read_distance() returns a reading at or below the emergency
\* distance.
TickReadsTooClose ==
    /\ mon.pc = "read_wait" /\ mon'.pc # "read_wait"
    /\ TooClose(mon'.distance)

\* C36: during one obstacle episode (consecutive ticks all reading
\* d <= emergency_stop_distance) the emergency stop is triggered exactly once:
\* emergency_stops_count grows by one on the first tick of the episode, the
\* one whose predecessor did not read that close, and stays as it is on the
\* following ticks.
C36_OneStopPerEpisode ==
    [][TickReadsTooClose =>
          emergency_stops_count' =
              IF TooClose(mon.distance) THEN emergency_stops_count
              ELSE emergency_stops_count + 1]_vars

\* C37: resume_after_emergency returns True only if the distance it read
\* during the call is present and greater than min_obstacle_distance; when it
\* returns True, no alert is active, the level is SAFE, the motor latch is
\* clear, and emergency_stops_count is as it was.
C37_ResumeOnlyWhenClear ==
    [][ResumeReturnsTrue =>
          /\ app.pc = "resume_read"
          /\ app'.distance # NoDist
          /\ app'.distance > min_obstacle_distance
          /\ active_alerts' = {}
          /\ level' = "SAFE"
          /\ ~is_emergency_stopped'
          /\ emergency_stops_count' = emergency_stops_count]_vars

\* HardwareIntegrationManager.move_with_emotion returns True for a direction
\* other than stop.
HimMoveReturnsTrue ==
    /\ app.op = "him_move_with_emotion" /\ app.dir # "STOP"
    /\ app.pc # "idle" /\ app'.pc = "idle"
    /\ app'.ret = "True"

\* The motor is stopped as the call returns: its STOP was acknowledged.
StoppedOnReturn == ~is_moving' /\ HasAction(app'.response, "STOP")

\* C38: whenever HardwareIntegrationManager.move_with_emotion returns True
\* for a direction other than stop, the motor has been stopped (is_moving is
\* False and a STOP was acknowledged after the motion command), and
\* total_movements grows, by exactly one, only in that case.
C38_MovementEndsStopped ==
    /\ [][HimMoveReturnsTrue => StoppedOnReturn]_vars
    /\ [][stats'.total_movements # stats.total_movements =>
             /\ stats'.total_movements = stats.total_movements + 1
             /\ HimMoveReturnsTrue
             /\ StoppedOnReturn]_vars

\* HardwareIntegrationManager.shutdown() has returned.
ShutdownReturned == app.op = "shutdown" /\ app.pc = "idle"

\* C39: when HardwareIntegrationManager.shutdown() has returned no background
\* task of the core is left: the monitoring loop has ended, and so have the
\* timed expression and every LED pattern task started by the Safety Monitor
\* or by move_with_emotion.
C39_NoTaskAfterShutdown ==
    ShutdownReturned =>
        /\ mon.pc = "off"
        /\ \A i \in LedIds : led[i].pc = "free"

\* initialize() of a hardware-mode manager without a sensor manager has
\* returned after its motor and LED steps had succeeded.
InitializedWithoutSensors ==
    /\ ~simulation_mode /\ ~sensor_manager
    /\ app.op = "initialize" /\ app.pc = "idle"
    /\ {"motor", "led"} \subseteq init_success

\* C40: without a sensor manager initialize() in hardware mode continues
\* without sensors: once the motor and LED steps have succeeded it does not
\* fail for the missing sensors, and when it has returned it has returned
\* True with is_operational set.
C40_InitializeWithoutSensors ==
    InitializedWithoutSensors => (app.ret = "True" /\ is_operational)
=============================================================================
